---- MODULE Spec2Model ----
(***************************************************************************)
(* Model of the transaction reconciliation and tax-projection engine of    *)
(* the TaxPulse OE dashboard (src/App.tsx, src/services/dataService.ts,    *)
(* src/services/notificationService.ts).                                   *)
(*                                                                         *)
(* JavaScript values are represented as follows.                           *)
(*   text      a string; the value undefined is the string "undefined"     *)
(*   number    a sequence of integers of length at most one: <<n>> is the  *)
(*             number n, <<>> is undefined (in an upstream item) or NaN    *)
(*             (in a computed result)                                      *)
(*   date text a record [fmt, ...] that keeps the shape of the string      *)
(*   object    a record with every field the code reads; a field the       *)
(*             object does not carry holds undefined                       *)
(* Money is kept in whole euros; the amounts used make 20% and 80% exact.  *)
(***************************************************************************)
EXTENDS Integers, Sequences, FiniteSets, TLC

----------------------------------------------------------------------------
(* JavaScript values *)

Undefined == "undefined"

NaN == <<>>

Num(n) == <<n>>

IsNum(x) == x # <<>>

\* x is truthy as a text field: neither undefined nor the empty string
TruthyText(x) == x \notin {Undefined, ""}

\* x is truthy as a number field: neither undefined/NaN nor 0
TruthyNum(x) == IsNum(x) /\ x[1] # 0

\* parseFloat(x) || 0
parseFloatOr0(x) == IF TruthyNum(x) THEN x ELSE Num(0)

INCOME == "INCOME"

EXPENSE == "EXPENSE"

OFFICIAL == "OFFICIAL"

MANUAL_REVIEW == "MANUAL_REVIEW"

\* a thrown exception, as the result of an operator that yields an object
Throw == [threw |-> TRUE]

\* a thrown exception, as the result of an operator that yields an array
ThrowSeq == <<Throw>>

----------------------------------------------------------------------------
(* Dates.  A date text is one of                                           *)
(*   [fmt |-> "iso", y, m, d, rest]   YYYY-MM-DD followed by nothing       *)
(*                                    (rest = ""), by "T..." (rest = "T")  *)
(*                                    or by " ..." (rest = " ")            *)
(*   [fmt |-> "slash", p1, p2, y]     p1/p2/YYYY                           *)
(*   [fmt |-> "text", y, m, d]        another form the platform parser     *)
(*                                    reads as local midnight of y-m-d     *)
(*   [fmt |-> "ym", y, m]             YYYY-MM, which the platform parser   *)
(*                                    reads as UTC midnight of y-m-01      *)
(*   [fmt |-> "garbage"]              a string no parser reads             *)
(*   [fmt |-> "absent"]               undefined or the empty string        *)

AbsentDate == [fmt |-> "absent"]

GarbageDate == [fmt |-> "garbage"]

IsoDate(y, m, d) == [fmt |-> "iso", y |-> y, m |-> m, d |-> d, rest |-> ""]

IsoDateTime(y, m, d) == [fmt |-> "iso", y |-> y, m |-> m, d |-> d, rest |-> "T"]

\* "2024-03-10 10:00:00": the date, a space and a time
IsoDateSpaceTime(y, m, d) == [fmt |-> "iso", y |-> y, m |-> m, d |-> d, rest |-> " "]

SlashDate(p1, p2, y) == [fmt |-> "slash", p1 |-> p1, p2 |-> p2, y |-> y]

TextDate(y, m, d) == [fmt |-> "text", y |-> y, m |-> m, d |-> d]

\* "2024-03": a year and a month
YearMonth(y, m) == [fmt |-> "ym", y |-> y, m |-> m]

\* new Date().toISOString().split('T')[0]
Today == IsoDate(2026, 11, 3)

IsLeap(y) == (y % 4 = 0 /\ y % 100 # 0) \/ y % 400 = 0

DaysInMonth(y, m) ==
    IF m = 2 THEN (IF IsLeap(y) THEN 29 ELSE 28)
    ELSE IF m \in {4, 6, 9, 11} THEN 30 ELSE 31

ValidYMD(y, m, d) == m \in 1..12 /\ d \in 1..DaysInMonth(y, m)

\* the calendar day before y-m-d
PrevDay(y, m, d) ==
    IF d > 1 THEN IsoDate(y, m, d - 1)
    ELSE IF m > 1 THEN IsoDate(y, m - 1, DaysInMonth(y, m - 1))
    ELSE IsoDate(y - 1, 12, 31)

\* dateStr matches /^\d{4}-\d{2}-\d{2}/
MatchesIsoPrefix(dateStr) == dateStr.fmt = "iso"

\* dateStr matches /^\d{1,2}\/\d{1,2}\/\d{4}$/
MatchesSlash(dateStr) == dateStr.fmt = "slash"

\* normalizeDate(dateStr); eastOfUtc tells whether local midnight falls on
\* the previous UTC day (toISOString prints the UTC date)
normalizeDate(dateStr, eastOfUtc) ==
    IF dateStr.fmt = "absent" THEN Today
    ELSE IF MatchesIsoPrefix(dateStr)
        THEN (IF dateStr.rest = "T" THEN [dateStr EXCEPT !.rest = ""] ELSE dateStr)
    ELSE IF MatchesSlash(dateStr)
        THEN (IF dateStr.p1 <= 12
                 THEN IsoDate(dateStr.y, dateStr.p1, dateStr.p2)
                 ELSE IsoDate(dateStr.y, dateStr.p2, dateStr.p1))
    ELSE IF dateStr.fmt = "text" /\ ValidYMD(dateStr.y, dateStr.m, dateStr.d)
        THEN (IF eastOfUtc THEN PrevDay(dateStr.y, dateStr.m, dateStr.d)
                           ELSE IsoDate(dateStr.y, dateStr.m, dateStr.d))
    ELSE IF dateStr.fmt = "ym" /\ dateStr.m \in 1..12
        THEN IsoDate(dateStr.y, dateStr.m, 1)
    ELSE Today

\* new Date(date).getTime() for the sort: a day number, or NaN for a text
\* that is no date
getTime(date) ==
    IF date.fmt = "iso" /\ ValidYMD(date.y, date.m, date.d)
        THEN Num(date.y * 372 + date.m * 31 + date.d)
    ELSE IF date.fmt = "slash" /\ ValidYMD(date.y, date.p1, date.p2)
        THEN Num(date.y * 372 + date.p1 * 31 + date.p2)
    ELSE IF date.fmt = "text" /\ ValidYMD(date.y, date.m, date.d)
        THEN Num(date.y * 372 + date.m * 31 + date.d)
    ELSE IF date.fmt = "ym" /\ date.m \in 1..12
        THEN Num(date.y * 372 + date.m * 31 + 1)
    ELSE NaN

----------------------------------------------------------------------------
(* Objects.  One record shape serves for an upstream item and for a        *)
(* Transaction: the canonical fields of types.ts (id .. isNew) and the      *)
(* spreadsheet columns the normalizer reads (AA .. AADE).  The JSON value  *)
(* null is NullItem.                                                       *)

NullItem == [isNull |-> TRUE]

IsNull(item) == "isNull" \in DOMAIN item

NoMark == <<>>

Obj(id, date, clientName, amount, vatAmount, grossAmount, type, status, isNew, AA, DATE, CLIENT, NET, FPA, AMOUNT_EUR, MARK, AADE) ==
    [id |-> id, date |-> date, clientName |-> clientName, amount |-> amount,
     vatAmount |-> vatAmount, grossAmount |-> grossAmount, type |-> type,
     status |-> status, isNew |-> isNew,
     AA |-> AA, DATE |-> DATE, CLIENT |-> CLIENT, NET |-> NET, FPA |-> FPA,
     AMOUNT_EUR |-> AMOUNT_EUR, MARK |-> MARK, AADE |-> AADE]

\* an object that carries the canonical fields only
Transaction(id, date, clientName, amount, vatAmount, grossAmount, type, status) ==
    Obj(id, date, clientName, amount, vatAmount, grossAmount, type, status, FALSE,
        Undefined, AbsentDate, Undefined, NaN, NaN, NaN, NoMark, Undefined)

\* an object that carries the spreadsheet columns only
SheetRow(AA, DATE, CLIENT, NET, FPA, AMOUNT_EUR, MARK, AADE) ==
    Obj(Undefined, AbsentDate, Undefined, NaN, NaN, NaN, Undefined, Undefined, FALSE,
        AA, DATE, CLIENT, NET, FPA, AMOUNT_EUR, MARK, AADE)

\* an object with none of the fields the normalizer looks at
UnknownItem ==
    Obj(Undefined, AbsentDate, Undefined, NaN, NaN, NaN, Undefined, Undefined, FALSE,
        Undefined, AbsentDate, Undefined, NaN, NaN, NaN, NoMark, Undefined)

\* item.AADE?.toString().toUpperCase() || ''
toUpperCase(s) ==
    IF s = Undefined THEN ""
    ELSE IF s = "official" THEN "OFFICIAL"
    ELSE IF s = "manual_review_required" THEN "MANUAL_REVIEW_REQUIRED"
    ELSE s

\* the status the normalizer infers for a raw spreadsheet row
inferStatus(item) ==
    IF item.MARK # NoMark /\ Len(item.MARK) > 5 THEN OFFICIAL
    ELSE IF toUpperCase(item.AADE) = "MANUAL_REVIEW_REQUIRED" THEN MANUAL_REVIEW
    ELSE IF toUpperCase(item.AADE) = "OFFICIAL" THEN OFFICIAL
    ELSE MANUAL_REVIEW

\* the callback of dataArray.map in getStoredTransactions: the Transaction
\* made of one upstream item, or Throw when reading a field of null fails.
\* gen is the id that Date.now() and Math.random() make up.
mapItem(item, index, gen, eastOfUtc) ==
    IF IsNull(item) THEN Throw
    ELSE IF TruthyText(item.id) /\ TruthyText(item.type) /\ TruthyText(item.status)
        THEN Transaction(item.id,
                         normalizeDate(item.date, eastOfUtc),
                         IF TruthyText(item.clientName) THEN item.clientName ELSE "Unknown",
                         parseFloatOr0(item.amount),
                         parseFloatOr0(item.vatAmount),
                         parseFloatOr0(item.grossAmount),
                         item.type,
                         item.status)
    ELSE IF item.DATE.fmt # "absent" \/ TruthyText(item.CLIENT) \/ TruthyNum(item.AMOUNT_EUR)
        THEN Transaction(IF item.AA # Undefined THEN item.AA ELSE gen,
                         normalizeDate(item.DATE, eastOfUtc),
                         IF TruthyText(item.CLIENT) THEN item.CLIENT ELSE "Unknown",
                         parseFloatOr0(item.NET),
                         parseFloatOr0(item.FPA),
                         parseFloatOr0(item.AMOUNT_EUR),
                         EXPENSE,
                         inferStatus(item))
    ELSE Transaction("tx-unknown-" \o ToString(index),
                     normalizeDate([Today EXCEPT !.rest = "T"], eastOfUtc),
                     "Unknown Format",
                     Num(0), Num(0), Num(0),
                     EXPENSE,
                     MANUAL_REVIEW)

\* dataArray.map(...): the mapped batch, or ThrowSeq when one item throws.
\* index is 0-based as in the code.
RECURSIVE mapFrom(_, _, _, _)
mapFrom(dataArray, i, gen, eastOfUtc) ==
    IF i > Len(dataArray) THEN <<>>
    ELSE LET head == mapItem(dataArray[i], i - 1, gen, eastOfUtc)
             tail == mapFrom(dataArray, i + 1, gen, eastOfUtc)
         IN  IF head = Throw \/ tail = ThrowSeq THEN ThrowSeq ELSE <<head>> \o tail

mapBatch(dataArray, gen, eastOfUtc) == mapFrom(dataArray, 1, gen, eastOfUtc)

----------------------------------------------------------------------------
(* Content key *)

Pad2(n) == IF n < 10 THEN "0" \o ToString(n) ELSE ToString(n)

\* the text of a date, as a template literal prints it
DateText(date) ==
    IF date.fmt = "iso"
        THEN ToString(date.y) \o "-" \o Pad2(date.m) \o "-" \o Pad2(date.d)
             \o (IF date.rest = "" THEN "" ELSE date.rest \o "10:00:00")
    ELSE IF date.fmt = "slash"
        THEN ToString(date.p1) \o "/" \o ToString(date.p2) \o "/" \o ToString(date.y)
    ELSE IF date.fmt = "text"
        THEN "D" \o ToString(date.d) \o " M" \o ToString(date.m) \o " " \o ToString(date.y)
    ELSE IF date.fmt = "ym" THEN ToString(date.y) \o "-" \o Pad2(date.m)
    ELSE IF date.fmt = "garbage" THEN "garbage"
    ELSE Undefined

\* the text of a number, as a template literal prints it
NumText(x) == IF IsNum(x) THEN ToString(x[1]) ELSE Undefined

\* a faulty variant: the key also holds the id
createTransactionKey_WithId(t) ==
    t.id \o "-" \o DateText(t.date) \o "-" \o t.clientName \o "-"
         \o NumText(t.grossAmount) \o "-" \o t.type

\* createTransactionKey(t), the same in dataService.ts and
\* notificationService.ts
createTransactionKey(t) ==
    DateText(t.date) \o "-" \o t.clientName \o "-" \o NumText(t.grossAmount) \o "-" \o t.type

\* the set of the keys of a collection
KeysOf(ts) == {createTransactionKey(ts[i]) : i \in 1..Len(ts)}

----------------------------------------------------------------------------
(* Sort by date descending: mapped.sort((a, b) => dateB - dateA) *)

\* the comparator; a NaN result counts as 0
compareDesc(a, b) ==
    LET ta == getTime(a.date)
        tb == getTime(b.date)
    IN  IF IsNum(ta) /\ IsNum(tb) THEN tb[1] - ta[1] ELSE 0

\* insert t into the sorted sequence s behind every element that does not
\* compare greater (a stable insertion)
RECURSIVE insertSorted(_, _)
insertSorted(s, t) ==
    IF s = <<>> THEN <<t>>
    ELSE IF compareDesc(Head(s), t) <= 0 THEN <<Head(s)>> \o insertSorted(Tail(s), t)
    ELSE <<t>> \o s

RECURSIVE sortFrom(_, _, _)
sortFrom(ts, i, acc) ==
    IF i > Len(ts) THEN acc ELSE sortFrom(ts, i + 1, insertSorted(acc, ts[i]))

\* a faulty variant: no sort
sortByDateDesc_Unsorted(ts) == ts

sortByDateDesc(ts) == sortFrom(ts, 1, <<>>)

----------------------------------------------------------------------------
(* Diff of the initial load (getStoredTransactions) *)

\* mapped.map(t => ({...t, isNew: !lastSeenKeys.has(key)}))
markTransactions(mapped, lastSeenKeys) ==
    [i \in 1..Len(mapped) |->
        [mapped[i] EXCEPT !.isNew = createTransactionKey(mapped[i]) \notin lastSeenKeys]]

\* data.filter(t => t.isNew === true)
newOfLoad(data) == LET isNewTx(t) == t.isNew = TRUE IN SelectSeq(data, isNewTx)

(* Diff of the refresh (manualRefresh) *)

\* allTransactions.filter(t => !currentKeys.has(createTransactionKey(t)))
brandNewOf(allTransactions, currentTransactions) ==
    LET absent(t) == createTransactionKey(t) \notin KeysOf(currentTransactions)
    IN  SelectSeq(allTransactions, absent)

----------------------------------------------------------------------------
(* Tax projection (App.tsx, projection).  The rates are kept in percent.   *)

TAX_RATE_PERCENT == 20

TELOS_EPITIDEUMATOS == 800

ADVANCE_PAYMENT_RATE_PERCENT == 80

\* sum + t.grossAmount: NaN as soon as one operand is no number
jsAdd(sum, x) == IF IsNum(sum) /\ IsNum(x) THEN Num(sum[1] + x[1]) ELSE NaN

\* transactions.filter(t => t.type === type).reduce((sum, t) => sum + t.grossAmount, 0)
RECURSIVE sumFrom(_, _, _, _)
sumFrom(ts, type, i, sum) ==
    IF i > Len(ts) THEN sum
    ELSE sumFrom(ts, type, i + 1,
                 IF ts[i].type = type THEN jsAdd(sum, ts[i].grossAmount) ELSE sum)

sumOfType(ts, type) == sumFrom(ts, type, 1, Num(0))

\* transactions.filter(t => t.type === type).length
countOfType(ts, type) == Cardinality({i \in 1..Len(ts) : ts[i].type = type})

\* Math.max(0, income - expenses)
\* a faulty variant: the difference, not clamped at 0
taxableOf_Unclamped(income, expenses) ==
    IF IsNum(income) /\ IsNum(expenses) THEN Num(income[1] - expenses[1]) ELSE NaN

taxableOf(income, expenses) ==
    IF IsNum(income) /\ IsNum(expenses)
        THEN Num(IF income[1] - expenses[1] > 0 THEN income[1] - expenses[1] ELSE 0)
        ELSE NaN

\* x * percent / 100
jsPercent(x, percent) == IF IsNum(x) THEN Num((x[1] * percent) \div 100) ELSE NaN

projection(ts) ==
    LET income == sumOfType(ts, INCOME)
        expenses == sumOfType(ts, EXPENSE)
        taxableIncome == taxableOf(income, expenses)
        currentYearTax == jsPercent(taxableIncome, TAX_RATE_PERCENT)
        advancePayment == jsPercent(currentYearTax, ADVANCE_PAYMENT_RATE_PERCENT)
        totalTax == jsAdd(jsAdd(currentYearTax, advancePayment), Num(TELOS_EPITIDEUMATOS))
    IN  [totalIncome |-> income,
         totalExpenses |-> expenses,
         taxableIncome |-> taxableIncome,
         estimatedTax |-> totalTax,
         currentYearTax |-> currentYearTax,
         advancePayment |-> advancePayment,
         telosEpitideumatos |-> TELOS_EPITIDEUMATOS,
         incomeCount |-> countOfType(ts, INCOME),
         expenseCount |-> countOfType(ts, EXPENSE)]

----------------------------------------------------------------------------
(* Monthly aggregation (App.tsx, monthlyStats).  Bucket 1 is "Jan".        *)

\* the month (1..12) that format(dateObj, 'MMM') names, or 0 when the Date
\* built of t.date is invalid and the transaction is skipped.  A date with
\* the YYYY-MM-DD prefix is parsed as t.date + 'T00:00:00', every other one
\* by new Date(t.date), which reads p1/p2/YYYY as month/day/year.
statsMonth(date) ==
    IF date.fmt = "iso"
        THEN (IF date.rest = "" /\ ValidYMD(date.y, date.m, date.d) THEN date.m ELSE 0)
    ELSE IF date.fmt = "slash"
        THEN (IF ValidYMD(date.y, date.p1, date.p2) THEN date.p1 ELSE 0)
    ELSE IF date.fmt = "text"
        THEN (IF ValidYMD(date.y, date.m, date.d) THEN date.m ELSE 0)
    ELSE IF date.fmt = "ym"
        THEN (IF date.m \in 1..12 THEN date.m ELSE 0)
    ELSE 0

emptyStats == [m \in 1..12 |-> [income |-> Num(0), expenses |-> Num(0)]]

\* the body of transactions.forEach
addToStats(stats, t) ==
    LET m == statsMonth(t.date)
    IN  IF m = 0 THEN stats
        ELSE IF t.type = INCOME
            THEN [stats EXCEPT ![m].income = jsAdd(@, t.grossAmount)]
            ELSE [stats EXCEPT ![m].expenses = jsAdd(@, t.grossAmount)]

RECURSIVE statsFrom(_, _, _)
statsFrom(ts, i, stats) ==
    IF i > Len(ts) THEN stats ELSE statsFrom(ts, i + 1, addToStats(stats, ts[i]))

monthlyStats(ts) == statsFrom(ts, 1, emptyStats)

----------------------------------------------------------------------------
(* Notification log (notificationService.ts).  The log is the array kept   *)
(* under STORAGE_KEY; an absent entry reads as the empty array.            *)

MAX_NOTIFICATIONS == 50

\* createNotificationFromTransaction(tx) at the time now
createNotificationFromTransaction(tx, now) ==
    [id |-> "notif-" \o tx.id \o "-" \o ToString(now),
     transaction |-> tx,
     timestamp |-> now,
     read |-> FALSE]

\* a faulty variant: the new notification goes to the tail, and the cut
\* keeps the oldest
addNotification_Tail(current, notification) ==
    IF \E i \in 1..Len(current) : current[i].id = notification.id
        THEN current
        ELSE SubSeq(current \o <<notification>>, 1,
                    IF Len(current) + 1 < MAX_NOTIFICATIONS THEN Len(current) + 1
                                                            ELSE MAX_NOTIFICATIONS)

\* addNotification(notification) on the stored log current: the log it
\* stores and returns
addNotification(current, notification) ==
    IF \E i \in 1..Len(current) : current[i].id = notification.id
        THEN current
        ELSE LET all == <<notification>> \o current
             IN  SubSeq(all, 1, IF Len(all) < MAX_NOTIFICATIONS THEN Len(all)
                                                               ELSE MAX_NOTIFICATIONS)

markNotificationAsRead(current, notificationId) ==
    [i \in 1..Len(current) |->
        IF current[i].id = notificationId THEN [current[i] EXCEPT !.read = TRUE]
                                          ELSE current[i]]

markAllAsRead(current) ==
    [i \in 1..Len(current) |-> [current[i] EXCEPT !.read = TRUE]]

clearAllNotifications(current) == <<>>

\* the forEach of loadTransactions and handleManualRefresh: one notification
\* for each new transaction, added in order; all are made at the time now
RECURSIVE notifyFrom(_, _, _, _)
notifyFrom(log, newTxs, i, now) ==
    IF i > Len(newTxs) THEN log
    ELSE notifyFrom(addNotification(log, createNotificationFromTransaction(newTxs[i], now)),
                    newTxs, i + 1, now)

notifyAll(log, newTxs, now) == notifyFrom(log, newTxs, 1, now)

----------------------------------------------------------------------------
(* Upstream responses.  A response body is the parsed JSON: a top-level    *)
(* array, an object wrapping an array in the field "transactions" or       *)
(* "data", a single object, a primitive, or null.                          *)

ArrayBody(items) == [kind |-> "array", items |-> items]

WrappedBody(field, items) == [kind |-> field, items |-> items]

ObjectBody(item) == [kind |-> "object", items |-> <<item>>]

PrimitiveBody == [kind |-> "primitive", items |-> <<>>]

NullBody == [kind |-> "null", items |-> <<>>]

\* dataArray of getStoredTransactions; reading data.transactions of null throws
decodeLoad(data) ==
    IF data.kind = "null" THEN ThrowSeq
    ELSE IF data.kind \in {"array", "transactions", "data", "object"} THEN data.items
    ELSE <<>>

\* allTransactions of manualRefresh; reading data.transactions of null throws
decodeRefresh(data) ==
    IF data.kind = "null" THEN ThrowSeq
    ELSE IF data.kind \in {"array", "transactions"} THEN data.items
    ELSE <<>>

\* what getStoredTransactions resolves to on the response body data, with
\* the last-seen keys read before the fetch: the marked collection, or
\* ThrowSeq
fetchedOfLoad(data, keysBefore, gen, eastOfUtc) ==
    LET dataArray == decodeLoad(data)
    IN  IF dataArray = ThrowSeq THEN ThrowSeq
        ELSE IF Len(dataArray) = 0 THEN <<>>
        ELSE LET mapped == mapBatch(dataArray, gen, eastOfUtc)
             IN  IF mapped = ThrowSeq THEN ThrowSeq
                 ELSE markTransactions(sortByDateDesc(mapped), keysBefore)

\* what manualRefresh resolves to on the response body data:
\* {transactions, newCount, newTransactions}, or Throw (createTransactionKey
\* reads t.date of a null item)
manualRefresh(currentTransactions, data) ==
    LET allTransactions == decodeRefresh(data)
    IN  IF allTransactions = ThrowSeq THEN Throw
        ELSE IF \E i \in 1..Len(allTransactions) : IsNull(allTransactions[i]) THEN Throw
        ELSE LET brandNew == brandNewOf(allTransactions, currentTransactions)
             IN  [transactions |-> allTransactions,
                  newCount |-> Len(brandNew),
                  newTransactions |-> brandNew]

----------------------------------------------------------------------------
(* The application (App.tsx) with its local storage and its requests in    *)
(* flight.                                                                 *)

VARIABLES
    webhookUrl,          \* VITE_N8N_WEBHOOK_URL is configured
    backend,             \* the kind of rows the upstream backend holds
    eastOfUtc,           \* the browser's time zone is east of UTC
    now,                 \* Date.now(), counted in completed fetch cycles
    ops,                 \* the operations the user and the timer have started
    isAuth,              \* useState isAuth
    hasLoadedRef,        \* useRef hasLoadedRef
    transactions,        \* useState transactions
    refreshing,          \* useState refreshing
    notifications,       \* useState notifications
    toasts,              \* the types of the toasts shown so far
    alerted,             \* alert() has been called
    reloadScheduled,     \* window.location.reload() has been scheduled
    hourlyInterval,      \* the setInterval timers that run, each with what its callback
                         \* closes over; hourlyIntervalRef holds the last one
    lastSeenKeys,        \* localStorage taxpulse_last_seen_<user>, as a set
    cache,               \* localStorage taxpulse_data_<user>
    storedNotifications, \* localStorage taxpulse_notifications
    loads,               \* getStoredTransactions calls in flight
    refreshes,           \* manualRefresh calls in flight (with, as history, the ids
                         \* deleted since the call was made)
    deletes,             \* deleteTransaction calls in flight (transaction ids)
    updates,             \* saveTransactionUpdate calls in flight (the edited transactions)
    editForm,            \* TransactionList useState editForm: the open dialog's transaction
    created,             \* history: notifications appended, per content identity
    seen,                \* history: identities the successful responses held
    dropped,             \* history: identities a later successful response no longer held
    cycle,               \* history: the last completed successful fetch cycle
    dirty,               \* history: an edit or a delete since the last completed cycle
    reply,               \* history: the last answer of the backend, <<operation, ok>>
    input,               \* the argument of the pure function that is applied
    output               \* its result

appVars == <<webhookUrl, backend, eastOfUtc, editForm, now, ops, isAuth, hasLoadedRef, transactions, refreshing,
             notifications, toasts, alerted, reloadScheduled, hourlyInterval,
             lastSeenKeys, cache, storedNotifications, loads, refreshes, deletes,
             updates>>

histVars == <<created, seen, dropped, cycle, dirty, reply>>

pureVars == <<input, output>>

vars == <<appVars, histVars, pureVars>>

(* Bounds *)

\* operations (login, refresh, delete, edit) started in one run, after
\* the load of the initial state
MaxOps == 2

(* Upstream items and batches of the application runs *)

\* a well-formed canonical item
ItemA == Transaction("a", IsoDate(2024, 3, 10), "Acme", Num(75), Num(25), Num(100),
                     INCOME, OFFICIAL)

\* a canonical item whose date carries a time
ItemB == Transaction("b", IsoDateTime(2024, 5, 2), "Beta", Num(250), Num(50), Num(300),
                     EXPENSE, MANUAL_REVIEW)

\* a partially formed canonical item: no amounts
ItemC == Transaction("c", IsoDate(2024, 1, 20), "Gamma", NaN, NaN, NaN,
                     INCOME, MANUAL_REVIEW)

\* a raw spreadsheet row
ItemR == SheetRow("7", SlashDate(13, 4, 2024), "Delta", Num(40), Num(10), Num(50),
                  <<1, 2, 3, 4, 5, 6>>, Undefined)

\* a second raw spreadsheet row
ItemS == SheetRow("8", IsoDate(2024, 6, 1), "Sigma", Num(80), Num(20), Num(100),
                  NoMark, "official")

\* the batches a backend of a kind answers with
Batches(kind) ==
    IF kind = "canonical" THEN { <<>>, <<ItemA>>, <<ItemA, ItemB>> }
                          ELSE { <<ItemC>>, <<ItemR, ItemS>>, <<NullItem>> }

Responses == {ArrayBody(b) : b \in Batches(backend)}

\* the id Date.now() and Math.random() make up for a row without A/A
GeneratedId == "tx-1-r"

\* the edits the dialog can make of a transaction
Edits(t) == { [t EXCEPT !.grossAmount = Num(200)], [t EXCEPT !.status = OFFICIAL] }

NoCache == [present |-> FALSE, txs |-> <<>>]

Cached(txs) == [present |-> TRUE, txs |-> txs]

\* a stored text that JSON.parse rejects
CorruptCache == [present |-> TRUE, txs |-> ThrowSeq]

\* what the local fallback of getStoredTransactions returns: nothing for an
\* absent cache and for one that does not parse, else the sorted cache
storedOffline(c) ==
    IF ~c.present \/ c = CorruptCache THEN <<>> ELSE sortByDateDesc(c.txs)

\* no interval runs
NoTimer == <<>>

\* clearInterval(hourlyIntervalRef.current): the timer the ref holds stops
clearInterval(timers) == IF timers = <<>> THEN <<>> ELSE SubSeq(timers, 1, Len(timers) - 1)

NoCycle == [path |-> "none", body |-> PrimitiveBody, newCount |-> 0, repeat |-> FALSE]

(* Helpers of the actions *)

RemoveAt(s, i) == SubSeq(s, 1, i - 1) \o SubSeq(s, i + 1, Len(s))

\* prev.filter(t => t.id !== transactionId)
withoutId(ts, transactionId) ==
    LET keep(t) == t.id # transactionId IN SelectSeq(ts, keep)

\* prev.map(t => t.id === updated.id ? updated : t)
withUpdated(ts, updated) ==
    [i \in 1..Len(ts) |-> IF ts[i].id = updated.id THEN updated ELSE ts[i]]

\* allNotifs.filter((n, index, self) => index === self.findIndex(t => t.id === n.id))
uniqueById(ns) ==
    LET first(i) == \A j \in 1..(i - 1) : ns[j].id # ns[i].id
        RECURSIVE from(_)
        from(i) == IF i > Len(ns) THEN <<>>
                   ELSE (IF first(i) THEN <<ns[i]>> ELSE <<>>) \o from(i + 1)
    IN  from(1)

\* the content identity of an upstream item or of a stored object: the key
\* of its canonical form
identity(x) == createTransactionKey(mapItem(x, 0, GeneratedId, FALSE))

identitiesOf(items) == {identity(items[i]) : i \in {j \in 1..Len(items) : ~IsNull(items[j])}}

Bump(f, k) == IF k \in DOMAIN f THEN [f EXCEPT ![k] = @ + 1] ELSE f @@ (k :> 1)

\* created after notifyAll(log, newTxs, now): one more for every
\* notification that addNotification inserts
RECURSIVE createdFrom(_, _, _, _, _)
createdFrom(cr, log, newTxs, i, t) ==
    IF i > Len(newTxs) THEN cr
    ELSE LET n == createNotificationFromTransaction(newTxs[i], t)
             inserted == \A j \in 1..Len(log) : log[j].id # n.id
         IN  createdFrom(IF inserted THEN Bump(cr, identity(newTxs[i])) ELSE cr,
                         addNotification(log, n), newTxs, i + 1, t)

\* the history of a fetch cycle that completes successfully
CycleDone(path, body, items, newTxs, at) ==
    /\ created' = createdFrom(created, storedNotifications, newTxs, 1, now)
    /\ seen' = seen \cup identitiesOf(items)
    /\ dropped' = dropped \cup (seen \ identitiesOf(items))
    /\ cycle' = [path |-> path, body |-> body, newCount |-> Len(newTxs),
                 repeat |-> cycle.path # "none" /\ cycle.body = body /\ ~dirty /\ at = now]
    /\ dirty' = FALSE
    /\ reply' = <<path, TRUE>>

(* The effect of [isAuth]: the initial load and the hourly timer *)

\* loadTransactions() is called: getStoredTransactions reads the last-seen
\* keys and issues the fetch (or, with no URL, waits for delay(300))
StartLoad == loads' = Append(loads, [keys |-> IF webhookUrl THEN lastSeenKeys ELSE {}, at |-> now])

\* the body of the effect for isAuth = TRUE
RunEffect ==
    IF hasLoadedRef
        THEN UNCHANGED <<hasLoadedRef, loads, hourlyInterval>>
        ELSE /\ hasLoadedRef' = TRUE
             /\ StartLoad
             /\ hourlyInterval' = Append(hourlyInterval,
                                         [refreshing |-> refreshing,
                                          transactions |-> transactions])

handleLoginSuccess ==
    /\ ~isAuth
    /\ ops < MaxOps
    /\ ops' = ops + 1
    /\ isAuth' = TRUE
    /\ RunEffect
    /\ UNCHANGED <<webhookUrl, backend, eastOfUtc, editForm, now, transactions, refreshing, notifications,
                   toasts, alerted, reloadScheduled, lastSeenKeys, cache,
                   storedNotifications, refreshes, deletes, updates>>
    /\ UNCHANGED <<histVars, pureVars>>

\* a faulty variant: the cleanup does not clear the interval
handleLogout_KeepingTimer ==
    /\ isAuth
    /\ isAuth' = FALSE
    /\ transactions' = <<>>
    /\ notifications' = <<>>
    /\ hasLoadedRef' = FALSE
    /\ editForm' = <<>>
    /\ UNCHANGED <<ops, webhookUrl, backend, eastOfUtc, now, refreshing, toasts, alerted,
                   reloadScheduled, hourlyInterval, lastSeenKeys, cache, storedNotifications, loads,
                   refreshes, deletes, updates>>
    /\ UNCHANGED <<histVars, pureVars>>

\* handleLogout, with the cleanup of the effect (clearInterval)
handleLogout ==
    /\ isAuth
    /\ isAuth' = FALSE
    /\ transactions' = <<>>
    /\ notifications' = <<>>
    /\ hasLoadedRef' = FALSE
    /\ hourlyInterval' = clearInterval(hourlyInterval)
    /\ editForm' = <<>>
    /\ UNCHANGED <<ops, webhookUrl, backend, eastOfUtc, now, refreshing, toasts, alerted,
                   reloadScheduled, lastSeenKeys, cache, storedNotifications, loads,
                   refreshes, deletes, updates>>
    /\ UNCHANGED <<histVars, pureVars>>

(* loadTransactions, after getStoredTransactions has resolved to data *)

Loaded(data) ==
    LET newTransactions == newOfLoad(data)
        updated == notifyAll(storedNotifications, newTransactions, now)
        prev == IF Len(newTransactions) > 0 THEN updated ELSE notifications
    IN  /\ transactions' = data
        /\ storedNotifications' = updated
        /\ notifications' = uniqueById(prev \o updated)

\* a faulty variant: the keys and the cache are written for an empty batch too
LoadSucceed_AlwaysSaving(i, resp) ==
    /\ webhookUrl
    /\ i \in 1..Len(loads)
    /\ LET data == fetchedOfLoad(resp, loads[i].keys, GeneratedId, eastOfUtc)
       IN  /\ data # ThrowSeq
           /\ lastSeenKeys' = KeysOf(data)
           /\ cache' = Cached(data)
           /\ Loaded(data)
           /\ CycleDone("load", resp, decodeLoad(resp), newOfLoad(data), loads[i].at)
    /\ loads' = RemoveAt(loads, i)
    /\ now' = now + 1
    /\ UNCHANGED <<ops, webhookUrl, backend, eastOfUtc, editForm, isAuth, hasLoadedRef, refreshing, toasts,
                   alerted, reloadScheduled, hourlyInterval, refreshes, deletes, updates>>
    /\ UNCHANGED pureVars

\* the fetch of getStoredTransactions answers with a 2xx status and the body
\* resp, and the processing does not throw
LoadSucceed(i, resp) ==
    /\ webhookUrl
    /\ i \in 1..Len(loads)
    /\ LET data == fetchedOfLoad(resp, loads[i].keys, GeneratedId, eastOfUtc)
       IN  /\ data # ThrowSeq
           /\ IF Len(data) > 0
                 THEN /\ lastSeenKeys' = KeysOf(data)
                      /\ cache' = Cached(data)
                 ELSE UNCHANGED <<lastSeenKeys, cache>>
           /\ Loaded(data)
           /\ CycleDone("load", resp, decodeLoad(resp), newOfLoad(data), loads[i].at)
    /\ loads' = RemoveAt(loads, i)
    /\ now' = now + 1
    /\ UNCHANGED <<ops, webhookUrl, backend, eastOfUtc, editForm, isAuth, hasLoadedRef, refreshing, toasts,
                   alerted, reloadScheduled, hourlyInterval, refreshes, deletes, updates>>
    /\ UNCHANGED pureVars

\* a faulty variant: a failed load empties the collection
LoadFail_Clearing(i) ==
    /\ webhookUrl
    /\ i \in 1..Len(loads)
    /\ loads' = RemoveAt(loads, i)
    /\ transactions' = <<>>
    /\ UNCHANGED <<ops, webhookUrl, backend, eastOfUtc, editForm, now, isAuth, hasLoadedRef,
                   refreshing, notifications, toasts, alerted, reloadScheduled,
                   hourlyInterval, lastSeenKeys, cache, storedNotifications, refreshes,
                   deletes, updates>>
    /\ reply' = <<"load", FALSE>>
    /\ UNCHANGED <<created, seen, dropped, cycle, dirty, pureVars>>

\* the fetch fails, answers with a non-2xx status, or the processing of the
\* body throws: loadTransactions logs the error
LoadFail(i) ==
    /\ webhookUrl
    /\ i \in 1..Len(loads)
    /\ loads' = RemoveAt(loads, i)
    /\ UNCHANGED <<ops, webhookUrl, backend, eastOfUtc, editForm, now, isAuth, hasLoadedRef, transactions,
                   refreshing, notifications, toasts, alerted, reloadScheduled,
                   hourlyInterval, lastSeenKeys, cache, storedNotifications, refreshes,
                   deletes, updates>>
    /\ reply' = <<"load", FALSE>>
    /\ UNCHANGED <<created, seen, dropped, cycle, dirty, pureVars>>

\* with no URL configured: after delay(300) the cached collection, sorted
LoadOffline(i) ==
    /\ ~webhookUrl
    /\ i \in 1..Len(loads)
    /\ now' = now + 1
    /\ Loaded(storedOffline(cache))
    /\ created' = createdFrom(created, storedNotifications,
                              newOfLoad(storedOffline(cache)), 1, now)
    /\ loads' = RemoveAt(loads, i)
    /\ UNCHANGED <<ops, webhookUrl, backend, eastOfUtc, editForm, isAuth, hasLoadedRef, refreshing, toasts,
                   alerted, reloadScheduled, hourlyInterval, lastSeenKeys, cache,
                   refreshes, deletes, updates>>
    /\ UNCHANGED <<seen, dropped, cycle, dirty, reply, pureVars>>

(* Refresh: handleManualRefresh, called by the button with the state of    *)
(* the current render and by the hourly timer with the state of the        *)
(* render in which the effect ran                                          *)

handleManualRefresh(closureRefreshing, closureTransactions) ==
    IF ~webhookUrl \/ closureRefreshing
        THEN UNCHANGED vars
        ELSE /\ ops < MaxOps
             /\ ops' = ops + 1
             /\ refreshing' = TRUE
             /\ refreshes' = Append(refreshes, [cur |-> closureTransactions, at |-> now,
                                                deleted |-> {}])
             /\ UNCHANGED <<webhookUrl, backend, eastOfUtc, editForm, now, isAuth, hasLoadedRef,
                            transactions, notifications, toasts, alerted,
                            reloadScheduled, hourlyInterval, lastSeenKeys, cache,
                            storedNotifications, loads, deletes, updates>>
             /\ UNCHANGED <<histVars, pureVars>>

\* the refresh button
RefreshClick ==
    /\ isAuth
    /\ handleManualRefresh(refreshing, transactions)

\* the setInterval callback
HourlyTick(k) ==
    /\ k \in 1..Len(hourlyInterval)
    /\ handleManualRefresh(hourlyInterval[k].refreshing, hourlyInterval[k].transactions)

\* manualRefresh resolves on a 2xx response with the body resp
RefreshSucceed(i, resp) ==
    /\ i \in 1..Len(refreshes)
    /\ LET r == manualRefresh(refreshes[i].cur, resp)
       IN  /\ r # Throw
           /\ transactions' = r.transactions
           /\ IF r.newCount > 0 /\ Len(r.newTransactions) > 0
                 THEN /\ storedNotifications' =
                            notifyAll(storedNotifications, r.newTransactions, now)
                      /\ notifications' = storedNotifications'
                 ELSE UNCHANGED <<storedNotifications, notifications>>
           /\ CycleDone("refresh", resp, r.transactions, r.newTransactions,
                        refreshes[i].at)
    /\ refreshing' = FALSE
    /\ refreshes' = RemoveAt(refreshes, i)
    /\ now' = now + 1
    /\ UNCHANGED <<ops, webhookUrl, backend, eastOfUtc, editForm, isAuth, hasLoadedRef, toasts, alerted,
                   reloadScheduled, hourlyInterval, lastSeenKeys, cache, loads,
                   deletes, updates>>
    /\ UNCHANGED pureVars

\* a faulty variant: a failed refresh leaves the refreshing flag set
RefreshFail_Stuck(i) ==
    /\ i \in 1..Len(refreshes)
    /\ refreshes' = RemoveAt(refreshes, i)
    /\ UNCHANGED <<ops, webhookUrl, backend, eastOfUtc, editForm, now, isAuth, hasLoadedRef, transactions,
                   refreshing, notifications, toasts, alerted, reloadScheduled,
                   hourlyInterval, lastSeenKeys, cache, storedNotifications, loads,
                   deletes, updates>>
    /\ reply' = <<"refresh", FALSE>>
    /\ UNCHANGED <<created, seen, dropped, cycle, dirty, pureVars>>

\* manualRefresh rejects: network error, non-2xx status, or a body it
\* cannot process
RefreshFail(i) ==
    /\ i \in 1..Len(refreshes)
    /\ refreshing' = FALSE
    /\ refreshes' = RemoveAt(refreshes, i)
    /\ UNCHANGED <<ops, webhookUrl, backend, eastOfUtc, editForm, now, isAuth, hasLoadedRef, transactions,
                   notifications, toasts, alerted, reloadScheduled, hourlyInterval,
                   lastSeenKeys, cache, storedNotifications, loads, deletes, updates>>
    /\ reply' = <<"refresh", FALSE>>
    /\ UNCHANGED <<created, seen, dropped, cycle, dirty, pureVars>>

(* Faulty variants of the failure handlers: a delete that rolls back and   *)
(* reports, an update that fails silently                                  *)

DeleteFail_Reporting(transactionId) ==
    /\ transactionId \in deletes
    /\ deletes' = deletes \ {transactionId}
    /\ toasts' = toasts \cup {"error"}
    /\ reloadScheduled' = TRUE
    /\ reply' = <<"delete", FALSE>>
    /\ UNCHANGED <<ops, webhookUrl, backend, eastOfUtc, editForm, now, isAuth, hasLoadedRef, transactions,
                   refreshing, notifications, alerted, hourlyInterval, lastSeenKeys, cache,
                   storedNotifications, loads, refreshes, updates>>
    /\ UNCHANGED <<created, seen, dropped, cycle, dirty, pureVars>>

UpdateFail_Silent(updated) ==
    /\ webhookUrl
    /\ updated \in updates
    /\ updates' = updates \ {updated}
    /\ reply' = <<"update", FALSE>>
    /\ UNCHANGED <<ops, webhookUrl, backend, eastOfUtc, editForm, now, isAuth, hasLoadedRef, transactions,
                   refreshing, notifications, toasts, alerted, reloadScheduled, hourlyInterval,
                   lastSeenKeys, cache, storedNotifications, loads, refreshes, deletes>>
    /\ UNCHANGED <<created, seen, dropped, cycle, dirty, pureVars>>

(* Delete: handleDeleteTransaction and deleteTransaction *)

\* the local cache without the transaction, when there is a cache
cacheWithoutId(c, transactionId) ==
    IF c.present /\ c # CorruptCache THEN Cached(withoutId(c.txs, transactionId)) ELSE c

\* the user confirms the deletion of a listed transaction
handleDeleteTransaction(transactionId) ==
    /\ isAuth
    /\ \E i \in 1..Len(transactions) : transactions[i].id = transactionId
    /\ ops < MaxOps
    /\ ops' = ops + 1
    /\ transactions' = withoutId(transactions, transactionId)
    /\ toasts' = toasts \cup {"success"}
    /\ IF webhookUrl
          THEN /\ deletes' = deletes \cup {transactionId}
               /\ UNCHANGED cache
          ELSE /\ cache' = cacheWithoutId(cache, transactionId)
               /\ UNCHANGED deletes
    /\ dirty' = TRUE
    /\ refreshes' = [i \in 1..Len(refreshes) |->
                        [refreshes[i] EXCEPT !.deleted = @ \cup {transactionId}]]
    /\ UNCHANGED <<webhookUrl, backend, eastOfUtc, editForm, now, isAuth, hasLoadedRef, refreshing,
                   notifications, alerted, reloadScheduled, hourlyInterval,
                   lastSeenKeys, storedNotifications, loads, updates>>
    /\ UNCHANGED <<created, seen, dropped, cycle, reply, pureVars>>

\* the delete webhook answers 2xx with a JSON body
DeleteSucceed(transactionId) ==
    /\ transactionId \in deletes
    /\ deletes' = deletes \ {transactionId}
    /\ cache' = cacheWithoutId(cache, transactionId)
    /\ UNCHANGED <<ops, webhookUrl, backend, eastOfUtc, editForm, now, isAuth, hasLoadedRef, transactions,
                   refreshing, notifications, toasts, alerted, reloadScheduled,
                   hourlyInterval, lastSeenKeys, storedNotifications, loads,
                   refreshes, updates>>
    /\ reply' = <<"delete", TRUE>>
    /\ UNCHANGED <<created, seen, dropped, cycle, dirty, pureVars>>

\* the delete webhook fails, answers non-2xx or sends a malformed body:
\* the inner catch of handleDeleteTransaction logs a warning
DeleteFail(transactionId) ==
    /\ transactionId \in deletes
    /\ deletes' = deletes \ {transactionId}
    /\ UNCHANGED <<ops, webhookUrl, backend, eastOfUtc, editForm, now, isAuth, hasLoadedRef, transactions,
                   refreshing, notifications, toasts, alerted, reloadScheduled,
                   hourlyInterval, lastSeenKeys, cache, storedNotifications, loads,
                   refreshes, updates>>
    /\ reply' = <<"delete", FALSE>>
    /\ UNCHANGED <<created, seen, dropped, cycle, dirty, pureVars>>

(* Update: handleUpdateTransaction and saveTransactionUpdate *)

\* the local cache with the edited transaction, when there is a cache
cacheWithUpdated(c, updatedTx) ==
    IF c.present /\ c # CorruptCache THEN Cached(withUpdated(c.txs, updatedTx)) ELSE c

\* the user opens the edit dialog of a listed transaction; the button is
\* there for a transaction under review only
handleEditClick(t) ==
    /\ isAuth
    /\ \E i \in 1..Len(transactions) : transactions[i] = t
    /\ t.status = MANUAL_REVIEW
    /\ ops < MaxOps
    /\ ops' = ops + 1
    /\ editForm' = <<t>>
    /\ UNCHANGED <<webhookUrl, backend, eastOfUtc, now, isAuth, hasLoadedRef, transactions,
                   refreshing, notifications, toasts, alerted, reloadScheduled,
                   hourlyInterval, lastSeenKeys, cache, storedNotifications, loads,
                   refreshes, deletes, updates>>
    /\ UNCHANGED <<histVars, pureVars>>

\* the user closes the dialog without saving
handleCancel ==
    /\ editForm # <<>>
    /\ editForm' = <<>>
    /\ UNCHANGED <<ops, webhookUrl, backend, eastOfUtc, now, isAuth, hasLoadedRef, transactions,
                   refreshing, notifications, toasts, alerted, reloadScheduled,
                   hourlyInterval, lastSeenKeys, cache, storedNotifications, loads,
                   refreshes, deletes, updates>>
    /\ UNCHANGED <<histVars, pureVars>>

\* the user saves the open dialog with an edit of the transaction it was
\* opened on: the dialog closes, saveTransactionUpdate is called and awaited
handleUpdateTransaction(updated) ==
    /\ editForm # <<>>
    /\ updated \in Edits(editForm[1])
    /\ editForm' = <<>>
    /\ updates' = updates \cup {updated}
    /\ dirty' = TRUE
    /\ UNCHANGED <<ops, webhookUrl, backend, eastOfUtc, now, isAuth, hasLoadedRef, transactions,
                   refreshing, notifications, toasts, alerted, reloadScheduled,
                   hourlyInterval, lastSeenKeys, cache, storedNotifications, loads,
                   refreshes, deletes>>
    /\ UNCHANGED <<created, seen, dropped, cycle, reply, pureVars>>

\* saveTransactionUpdate resolves (2xx with a JSON body, or the wait of the
\* offline path is over): the cache and then the collection take the edit
UpdateSucceed(updated) ==
    /\ updated \in updates
    /\ updates' = updates \ {updated}
    /\ cache' = cacheWithUpdated(cache, updated)
    /\ transactions' = withUpdated(transactions, updated)
    /\ dirty' = TRUE
    /\ UNCHANGED <<ops, webhookUrl, backend, eastOfUtc, editForm, now, isAuth, hasLoadedRef, refreshing,
                   notifications, toasts, alerted, reloadScheduled, hourlyInterval,
                   lastSeenKeys, storedNotifications, loads, refreshes, deletes>>
    /\ reply' = <<"update", TRUE>>
    /\ UNCHANGED <<created, seen, dropped, cycle, pureVars>>

\* saveTransactionUpdate rejects (network error or non-2xx): alert()
UpdateFail(updated) ==
    /\ webhookUrl
    /\ updated \in updates
    /\ updates' = updates \ {updated}
    /\ alerted' = TRUE
    /\ UNCHANGED <<ops, webhookUrl, backend, eastOfUtc, editForm, now, isAuth, hasLoadedRef, transactions,
                   refreshing, notifications, toasts, reloadScheduled, hourlyInterval,
                   lastSeenKeys, cache, storedNotifications, loads, refreshes, deletes>>
    /\ reply' = <<"update", FALSE>>
    /\ UNCHANGED <<created, seen, dropped, cycle, dirty, pureVars>>

(* The initial states: the page has loaded with an empty local storage,    *)
(* and the effect has run.  Without a URL the cache may hold what an       *)
(* earlier build with a URL left, newest first or (after createTransaction *)
(* has put a transaction in front, or an edit has changed a date) in       *)
(* another order, or a text that does not parse.                           *)

InitialCaches ==
    LET a == mapItem(ItemA, 0, GeneratedId, FALSE)
        c == mapItem(ItemC, 0, GeneratedId, FALSE)
    IN  {NoCache, CorruptCache, Cached(<<a, c>>), Cached(<<c, a>>)}

Init ==
    /\ webhookUrl \in BOOLEAN
    /\ backend \in IF webhookUrl THEN {"canonical", "partial"} ELSE {"canonical"}
    /\ eastOfUtc = FALSE
    /\ now = 0
    /\ ops = 0
    /\ isAuth \in BOOLEAN
    /\ hasLoadedRef = isAuth
    /\ transactions = <<>>
    /\ refreshing = FALSE
    /\ notifications = <<>>
    /\ toasts = {}
    /\ alerted = FALSE
    /\ reloadScheduled = FALSE
    /\ hourlyInterval = IF isAuth THEN <<[refreshing |-> FALSE, transactions |-> <<>>]>>
                                  ELSE NoTimer
    /\ lastSeenKeys = {}
    /\ cache \in IF webhookUrl THEN {NoCache} ELSE InitialCaches
    /\ storedNotifications = <<>>
    /\ loads = IF isAuth THEN <<[keys |-> {}, at |-> 0]>> ELSE <<>>
    /\ refreshes = <<>>
    /\ deletes = {}
    /\ updates = {}
    /\ editForm = <<>>
    /\ created = <<>>
    /\ seen = {}
    /\ dropped = {}
    /\ cycle = NoCycle
    /\ dirty = FALSE
    /\ reply = <<"none", TRUE>>
    /\ input = <<>>
    /\ output = <<>>

Next ==
    \/ handleLoginSuccess
    \/ handleLogout
    \/ \E i \in 1..Len(loads), resp \in Responses : LoadSucceed(i, resp)
    \/ \E i \in 1..Len(loads) : LoadFail(i)
    \/ \E i \in 1..Len(loads) : LoadOffline(i)
    \/ RefreshClick
    \/ \E k \in 1..Len(hourlyInterval) : HourlyTick(k)
    \/ \E i \in 1..Len(refreshes), resp \in Responses : RefreshSucceed(i, resp)
    \/ \E i \in 1..Len(refreshes) : RefreshFail(i)
    \/ \E i \in 1..Len(transactions) : handleDeleteTransaction(transactions[i].id)
    \/ \E id \in deletes : DeleteSucceed(id)
    \/ \E id \in deletes : DeleteFail(id)
    \/ \E i \in 1..Len(transactions) : handleEditClick(transactions[i])
    \/ handleCancel
    \/ \E i \in 1..Len(editForm) : \E u \in Edits(editForm[i]) : handleUpdateTransaction(u)
    \/ \E u \in updates : UpdateSucceed(u)
    \/ \E u \in updates : UpdateFail(u)

Spec == Init /\ [][Next]_vars

\* the fetch of a refresh in flight settles: the browser resolves or rejects
\* every fetch in the end, and the continuation of handleManualRefresh runs
RefreshSettles ==
    \/ \E i \in 1..Len(refreshes) : RefreshFail(i)
    \/ \E i \in 1..Len(refreshes), resp \in Responses : RefreshSucceed(i, resp)

SpecLive == Spec /\ WF_vars(RefreshSettles)

----------------------------------------------------------------------------
(* Properties of the application                                           *)

\* the ids of the objects a collection holds
IdsOf(ts) == {ts[i].id : i \in 1..Len(ts)}

\* C1: at most one refresh network call is in flight at any time: a refresh
\* trigger (click or hourly tick) that comes while a refresh is running
\* issues no request.
C1_OneRefreshInFlight == Len(refreshes) <= 1

\* C2: a transaction that upstream has returned in every successful
\* response since it first appeared has had at most one notification
\* created for it, whatever loads, refreshes, edits and deletes happened.
C2_NotifiedAtMostOnce ==
    \A k \in DOMAIN created : k \notin dropped => created[k] <= 1

\* C3: a fetch cycle (load or refresh) that started after the previous
\* successful cycle completed, got the same upstream body and had no edit
\* or delete in between, marks no transaction as new.
C3_RepeatedCycleMarksNothing == cycle.repeat => cycle.newCount = 0

\* C5: the taxable income of the projection of the stored collection is a
\* number and is not negative.
C5_TaxableIncomeNotNegative ==
    LET p == projection(transactions)
    IN  IsNum(p.taxableIncome) /\ p.taxableIncome[1] >= 0

\* the text of the date starts with a calendar date, year-month-day
HasValidDate(date) == date.fmt \in {"iso", "text"} /\ ValidYMD(date.y, date.m, date.d)

\* the twelve buckets with one amount in one field of one month
oneBucket(m, type, amount) ==
    [emptyStats EXCEPT ![m] = IF type = INCOME
                                 THEN [income |-> amount, expenses |-> Num(0)]
                                 ELSE [income |-> Num(0), expenses |-> amount]]

\* C7: every stored transaction with a valid date contributes its
\* grossAmount to the bucket of its date's month, in the field of its type,
\* and 0 to every other bucket and field.
C7_DatedTransactionInItsBucket ==
    \A i \in 1..Len(transactions) :
        LET t == transactions[i]
        IN  (HasValidDate(t.date) /\ t.type \in {INCOME, EXPENSE} /\ IsNum(t.grossAmount))
                => monthlyStats(<<t>>) = oneBucket(t.date.m, t.type, t.grossAmount)

\* a delete or update call has just been answered
Answered(pending, pendingAfter) == pendingAfter # pending /\ pendingAfter \subseteq pending

\* C9: a delete call that has just been issued finds its transaction already
\* gone from the collection; when the call fails the collection stays as it
\* is, no error is shown and no reload is scheduled.
C9_OptimisticDelete ==
    [][ /\ \A id \in deletes' \ deletes : id \notin IdsOf(transactions')
        /\ (Answered(deletes, deletes') /\ reply' = <<"delete", FALSE>>)
              => /\ transactions' = transactions
                 /\ toasts' = toasts /\ "error" \notin toasts'
                 /\ alerted' = alerted
                 /\ ~reloadScheduled' ]_vars

\* a delete call has failed; the cache still has a transaction that the
\* collection has lost
C9_Witness ==
    /\ reply = <<"delete", FALSE>>
    /\ "success" \in toasts
    /\ cache.present
    /\ IdsOf(cache.txs) \ IdsOf(transactions) # {}

\* C10: starting a save changes neither the collection nor the cache; an
\* edited entry enters the collection only in the step in which its save
\* succeeds; a failed save leaves the collection and the cache as they are
\* and alerts the user.
C10_PessimisticUpdate ==
    [][ /\ (updates' # updates /\ updates \subseteq updates')
              => (transactions' = transactions /\ cache' = cache)
        /\ \A i \in 1..Len(transactions') :
              LET u == transactions'[i]
              IN  (\E j \in 1..Len(transactions) :
                       /\ transactions[j].id = u.id
                       /\ u # transactions[j]
                       /\ u \in Edits(transactions[j]))
                    => (u \in updates \ updates' /\ reply' = <<"update", TRUE>>)
        /\ (Answered(updates, updates') /\ reply' = <<"update", FALSE>>)
              => (transactions' = transactions /\ cache' = cache /\ alerted') ]_vars

\* a save has failed and the user has been alerted; the collection still
\* holds an entry under review and the cache holds the same collection
C10_Witness ==
    /\ reply = <<"update", FALSE>>
    /\ alerted
    /\ updates = {}
    /\ \E i \in 1..Len(transactions) : transactions[i].status = MANUAL_REVIEW
    /\ cache = Cached(transactions)

----------------------------------------------------------------------------
(* The pure functions on their own: the application is signed out and      *)
(* idle, input holds the argument and output the result.                   *)

IdleApp ==
    /\ webhookUrl = TRUE
    /\ backend = "canonical"
    /\ ops = 0
    /\ isAuth = FALSE
    /\ hasLoadedRef = FALSE
    /\ transactions = <<>>
    /\ refreshing = FALSE
    /\ notifications = <<>>
    /\ toasts = {}
    /\ alerted = FALSE
    /\ reloadScheduled = FALSE
    /\ hourlyInterval = NoTimer
    /\ lastSeenKeys = {}
    /\ cache = NoCache
    /\ loads = <<>>
    /\ refreshes = <<>>
    /\ deletes = {}
    /\ updates = {}
    /\ editForm = <<>>
    /\ created = <<>>
    /\ seen = {}
    /\ dropped = {}
    /\ cycle = NoCycle
    /\ dirty = FALSE
    /\ reply = <<"none", TRUE>>

idleVars == <<webhookUrl, backend, ops, isAuth, hasLoadedRef, transactions, refreshing,
              notifications, toasts, alerted, reloadScheduled, hourlyInterval,
              lastSeenKeys, cache, loads, refreshes, deletes, updates, editForm, histVars>>

NotRun == [done |-> FALSE]

(* The normalizer: the item mapping of getStoredTransactions *)

\* the longest batch
MaxBatch == 2

\* upstream items: well formed, partially formed, rows, garbage and null
NormItems ==
    { ItemA, ItemB, ItemC, ItemR, NullItem, UnknownItem,
      Transaction("d", SlashDate(3, 4, 2024), Undefined, Num(-5), NaN, Num(0),
                  "income", "DRAFT"),
      Transaction("e", GarbageDate, "", NaN, NaN, NaN, EXPENSE, OFFICIAL),
      Transaction("f", TextDate(2024, 3, 1), "Zeta", Num(1), Num(0), Num(1),
                  INCOME, MANUAL_REVIEW),
      SheetRow(Undefined, AbsentDate, "Eta", NaN, NaN, Num(50), NoMark, Undefined),
      SheetRow("9", IsoDateTime(2024, 2, 29), Undefined, Num(40), Num(10), NaN,
               NoMark, "official") }

BatchesUpTo(n) == UNION { [1..k -> NormItems] : k \in 0..n }

InitNorm ==
    /\ IdleApp
    /\ now = 0
    /\ storedNotifications = <<>>
    /\ eastOfUtc \in BOOLEAN
    /\ input \in BatchesUpTo(MaxBatch)
    /\ output = NotRun

\* dataArray.map(...) of getStoredTransactions on the batch
Normalize ==
    /\ ~output.done
    /\ output' = [done |-> TRUE, result |-> mapBatch(input, GeneratedId, eastOfUtc)]
    /\ UNCHANGED <<idleVars, now, storedNotifications, eastOfUtc, input>>

NextNorm == Normalize

SpecNorm == InitNorm /\ [][NextNorm]_vars

\* a Transaction as types.ts declares it, with a canonical date
IsTransaction(t) ==
    /\ t # Throw
    /\ t.id # Undefined
    /\ t.date.fmt = "iso" /\ t.date.rest = ""
    /\ t.clientName # Undefined
    /\ IsNum(t.amount) /\ IsNum(t.vatAmount) /\ IsNum(t.grossAmount)
    /\ t.type # Undefined /\ t.status # Undefined

\* C4: the normalizer never throws and returns one Transaction per item of
\* the batch, whatever the items are.
C4_NormalizerTotal ==
    output.done =>
        /\ output.result # ThrowSeq
        /\ Len(output.result) = Len(input)
        /\ \A i \in 1..Len(output.result) : IsTransaction(output.result[i])

(* The projection and the monthly statistics: the two useMemo of App *)

\* the longest collection
MaxTxs == 2

\* amounts in euro; multiples of 25, whose percentages are whole
TaxAmounts == {0, 25, 3000, 10000}

TaxItems ==
    { Transaction("t", date, "Acme", Num(g), Num(0), Num(g), type, OFFICIAL) :
          date \in {IsoDate(2024, 3, 10), IsoDate(2023, 11, 5)},
          g \in TaxAmounts,
          type \in {INCOME, EXPENSE} }

InitTax ==
    /\ IdleApp
    /\ now = 0
    /\ storedNotifications = <<>>
    /\ eastOfUtc = FALSE
    /\ input \in UNION { [1..k -> TaxItems] : k \in 0..MaxTxs }
    /\ output = NotRun

\* a render with the collection: both memos are computed
Render ==
    /\ ~output.done
    /\ output' = [done |-> TRUE, projection |-> projection(input),
                  monthlyStats |-> monthlyStats(input)]
    /\ UNCHANGED <<idleVars, now, storedNotifications, eastOfUtc, input>>

NextTax == Render

SpecTax == InitTax /\ [][NextTax]_vars

\* the sum of grossAmount over the transactions of a type, by position set
RECURSIVE grossOver(_, _)
grossOver(ts, S) ==
    IF S = {} THEN 0
    ELSE LET i == CHOOSE i \in S : TRUE
         IN  ts[i].grossAmount[1] + grossOver(ts, S \ {i})

totalOf(ts, type) == grossOver(ts, {i \in 1..Len(ts) : ts[i].type = type})

\* C6: taxableIncome = max(0, income - expenses), currentYearTax is 20% of
\* it, advancePayment is 80% of currentYearTax and estimatedTax is their sum
\* plus 800; income 10,000 and expenses 3,000 give 7,000 / 1,400 / 1,120 /
\* 3,320.
C6_TaxFormula ==
    output.done =>
        LET p == output.projection
            income == totalOf(input, INCOME)
            expenses == totalOf(input, EXPENSE)
        IN  /\ p.totalIncome = Num(income) /\ p.totalExpenses = Num(expenses)
            /\ p.taxableIncome = Num(IF income > expenses THEN income - expenses ELSE 0)
            /\ IsNum(p.currentYearTax) /\ IsNum(p.advancePayment) /\ IsNum(p.estimatedTax)
            /\ p.currentYearTax[1] * 100 = p.taxableIncome[1] * 20
            /\ p.advancePayment[1] * 100 = p.currentYearTax[1] * 80
            /\ p.estimatedTax[1] = p.currentYearTax[1] + p.advancePayment[1] + 800
            /\ (income = 10000 /\ expenses = 3000)
                  => /\ p.taxableIncome = Num(7000)
                     /\ p.currentYearTax = Num(1400)
                     /\ p.advancePayment = Num(1120)
                     /\ p.estimatedTax = Num(3320)

\* the projection of income 10,000 and expenses 3,000 has been computed
C6_Witness ==
    /\ output.done
    /\ totalOf(input, INCOME) = 10000
    /\ totalOf(input, EXPENSE) = 3000
    /\ output.projection.estimatedTax = Num(3320)

\* the projection of a collection whose expenses exceed its income has
\* been computed
C6_WitnessClamped ==
    /\ output.done
    /\ totalOf(input, EXPENSE) > totalOf(input, INCOME)
    /\ output.projection.taxableIncome = Num(0)

(* The notification log: notificationService on localStorage *)

\* the notifications created in one run
MaxAdds == 52

\* the transaction the notifications are about
LogTx == mapItem(ItemA, 0, GeneratedId, FALSE)

\* the ids the user clicks on: the first two notifications and one that
\* does not exist
ClickedIds == {"notif-a-0", "notif-a-1", "notif-none"}

InitLog ==
    /\ IdleApp
    /\ now = 0
    /\ storedNotifications = <<>>
    /\ eastOfUtc = FALSE
    /\ input = NotRun
    /\ output = NotRun

\* addNotification with a notification made now
LogAdd ==
    /\ now < MaxAdds
    /\ input' = createNotificationFromTransaction(LogTx, now)
    /\ storedNotifications' = addNotification(storedNotifications, input')
    /\ now' = now + 1
    /\ UNCHANGED <<idleVars, eastOfUtc, output>>

\* addNotification with a copy of a notification of the log
LogAddAgain(i) ==
    /\ i \in 1..Len(storedNotifications)
    /\ input' = [storedNotifications[i] EXCEPT !.read = FALSE]
    /\ storedNotifications' = addNotification(storedNotifications, input')
    /\ UNCHANGED <<idleVars, now, eastOfUtc, output>>

LogMarkRead(notificationId) ==
    /\ storedNotifications' = markNotificationAsRead(storedNotifications, notificationId)
    /\ UNCHANGED <<idleVars, now, eastOfUtc, input, output>>

LogMarkAll ==
    /\ storedNotifications' = markAllAsRead(storedNotifications)
    /\ UNCHANGED <<idleVars, now, eastOfUtc, input, output>>

LogClear ==
    /\ storedNotifications' = clearAllNotifications(storedNotifications)
    /\ UNCHANGED <<idleVars, now, eastOfUtc, input, output>>

NextLog ==
    \/ LogAdd
    \/ \E i \in {1, Len(storedNotifications)} : LogAddAgain(i)
    \/ \E id \in ClickedIds : LogMarkRead(id)
    \/ LogMarkAll
    \/ LogClear

SpecLog == InitLog /\ [][NextLog]_vars

\* C8: the stored log never holds more than 50 entries; adding a distinct
\* notification puts it at the head in front of the previous entries, and
\* when the log was full the oldest entry is the one that goes.
C8_NotificationCap ==
    [][ /\ Len(storedNotifications') <= 50
        /\ now' = now + 1
              => /\ Len(storedNotifications') =
                        (IF Len(storedNotifications) < 50 THEN Len(storedNotifications) + 1
                                                          ELSE 50)
                 /\ storedNotifications'[1] = input'
                 /\ storedNotifications'[1].timestamp = now
                 /\ Tail(storedNotifications') =
                        SubSeq(storedNotifications, 1, Len(storedNotifications') - 1) ]_vars

\* 51 distinct notifications have been added in a row: the log holds the
\* newest 50, the first one is gone
C8_Witness ==
    /\ now = 51
    /\ Len(storedNotifications) = 50
    /\ storedNotifications[1].timestamp = 50
    /\ storedNotifications[50].timestamp = 1

(* The content key and the two diffs: a batch that holds prev is fetched   *)
(* and stored, then a batch that holds next is fetched                     *)

KeyItems ==
    { Transaction(id, date, clientName, Num(0), Num(0), Num(g), type, OFFICIAL) :
          id \in {"a", "tx-2-q"},
          date \in {IsoDate(2024, 3, 10), IsoDate(2024, 5, 2), YearMonth(2024, 3)},
          clientName \in {"Acme", "Beta", "10-Acme"},
          g \in {100, 300},
          type \in {INCOME, EXPENSE} }

InitKey ==
    /\ IdleApp
    /\ now = 0
    /\ storedNotifications = <<>>
    /\ eastOfUtc = FALSE
    /\ input \in [prev : KeyItems, next : KeyItems]
    /\ output = NotRun

\* the marking of getStoredTransactions with the keys the cycle of prev
\* stored, and the diff of manualRefresh against the collection of prev
Diff ==
    /\ ~output.done
    /\ LET first == markTransactions(<<input.prev>>, {})
       IN  output' = [done |-> TRUE,
                      marked |-> markTransactions(<<input.next>>, KeysOf(first)),
                      brandNew |-> brandNewOf(<<input.next>>, first)]
    /\ UNCHANGED <<idleVars, now, storedNotifications, eastOfUtc, input>>

NextKey == Diff

SpecKey == InitKey /\ [][NextKey]_vars

\* the two transactions agree on date, clientName, grossAmount and type
SameContent(t, u) ==
    /\ t.date = u.date
    /\ t.clientName = u.clientName
    /\ t.grossAmount = u.grossAmount
    /\ t.type = u.type

----------------------------------------------------------------------------
(* Properties of the fetch cycles                                          *)

\* a load or a refresh has just failed
FetchFailed ==
    \/ reply' = <<"load", FALSE>> /\ Len(loads') < Len(loads)
    \/ reply' = <<"refresh", FALSE>> /\ Len(refreshes') < Len(refreshes)

\* C12: the step in which a load or a refresh fails changes neither the
\* collection, nor the last-seen keys, nor the cache, nor the notification
\* log; a failed refresh resets the refreshing flag, and no request is
\* issued in place of the failed one.
C12_FetchFailureChangesNothing ==
    [][ FetchFailed
          => /\ transactions' = transactions
             /\ lastSeenKeys' = lastSeenKeys
             /\ cache' = cache
             /\ storedNotifications' = storedNotifications
             /\ notifications' = notifications
             /\ (reply'[1] = "refresh" => ~refreshing')
             /\ Len(loads') + Len(refreshes') = Len(loads) + Len(refreshes) - 1 ]_vars

\* a refresh has failed after a load had filled the collection and the
\* last-seen keys; nothing is in flight
C12_Witness ==
    /\ reply = <<"refresh", FALSE>>
    /\ ~refreshing
    /\ loads = <<>> /\ refreshes = <<>>
    /\ transactions # <<>>
    /\ lastSeenKeys = KeysOf(transactions)
    /\ cache = Cached(transactions)

(* The decoding of the response body on the two fetch paths *)

DecodeBatches == UNION { [1..k -> {ItemA, ItemB, ItemC, ItemR}] : k \in 0..MaxBatch }

\* the JSON bodies: arrays, the two wrappers, single objects, a primitive
\* (number, string or boolean) and null
Bodies ==
    {ArrayBody(b) : b \in DecodeBatches}
        \cup {WrappedBody(f, b) : f \in {"transactions", "data"}, b \in DecodeBatches}
        \cup {ObjectBody(item) : item \in {ItemA, ItemB, ItemC, ItemR}}
        \cup {PrimitiveBody, NullBody}

InitDecode ==
    /\ IdleApp
    /\ now = 0
    /\ storedNotifications = <<>>
    /\ eastOfUtc = FALSE
    /\ input \in Bodies
    /\ output = NotRun

\* response.json() has resolved to the body: dataArray of
\* getStoredTransactions and allTransactions of manualRefresh
Decode ==
    /\ ~output.done
    /\ output' = [done |-> TRUE, load |-> decodeLoad(input),
                  refresh |-> decodeRefresh(input)]
    /\ UNCHANGED <<idleVars, now, storedNotifications, eastOfUtc, input>>

NextDecode == Decode

SpecDecode == InitDecode /\ [][NextDecode]_vars

\* the batch a body stands for: the array, the array of the wrapper, the
\* single object as a batch of one, and nothing for any other body
batchOf(data) ==
    IF data.kind \in {"array", "transactions", "data", "object"} THEN data.items ELSE <<>>

\* C13: on both fetch paths the decoded batch is the array, the array
\* under `transactions` or `data`, or the single object as a batch of one;
\* any other body (null, number, string, boolean) gives the empty batch and
\* no failure.
C13_BodiesDecoded ==
    output.done => (output.load = batchOf(input) /\ output.refresh = batchOf(input))

\* a fetch cycle has just completed successfully
CycleCompleted == now' = now + 1

\* no element precedes one with a strictly later date
SortedByDateDesc(ts) ==
    \A i, j \in 1..Len(ts) :
        (i < j /\ IsNum(getTime(ts[i].date)) /\ IsNum(getTime(ts[j].date)))
            => getTime(ts[j].date)[1] <= getTime(ts[i].date)[1]

\* C14: the collection that a successful fetch cycle (load or refresh)
\* puts in the store is ordered by date, newest first.
C14_StoredNewestFirst == [][ CycleCompleted => SortedByDateDesc(transactions') ]_vars

\* the transactions the cycle that has just completed marked as new
markedNew == IF webhookUrl THEN cycle'.newCount ELSE Len(newOfLoad(transactions'))

\* C15: a fetch cycle that marks n transactions as new makes the
\* notification log n entries longer (the log stays below its cap here),
\* and a cycle that marks none leaves its length alone.
C15_OneNotificationPerNew ==
    [][ CycleCompleted
          => Len(storedNotifications') = Len(storedNotifications) + markedNew ]_vars

(* normalizeDate on its own *)

DateInputs ==
    {AbsentDate, GarbageDate}
        \cup { [fmt |-> "iso", y |-> ymd[1], m |-> ymd[2], d |-> ymd[3], rest |-> rest] :
                   ymd \in {<<2024, 3, 10>>, <<2024, 2, 29>>, <<2023, 12, 31>>, <<2024, 13, 45>>},
                   rest \in {"", "T", " "} }
        \cup { SlashDate(p1, p2, y) :
                   p1 \in {3, 12, 13, 31}, p2 \in {4, 12, 13}, y \in {2023, 2024} }
        \cup { TextDate(2024, 3, 1), TextDate(2024, 1, 1), TextDate(2023, 2, 30) }

InitDate ==
    /\ IdleApp
    /\ now = 0
    /\ storedNotifications = <<>>
    /\ eastOfUtc \in BOOLEAN
    /\ input \in DateInputs
    /\ output = NotRun

NormalizeDate ==
    /\ ~output.done
    /\ output' = [done |-> TRUE, result |-> normalizeDate(input, eastOfUtc)]
    /\ UNCHANGED <<idleVars, now, storedNotifications, eastOfUtc, input>>

NextDate == NormalizeDate

SpecDate == InitDate /\ [][NextDate]_vars

\* the text has the form YYYY-MM-DD and nothing behind it
IsCanonicalDate(date) == date.fmt = "iso" /\ date.rest = ""

\* C16: normalizeDate always returns a text of the form YYYY-MM-DD: the
\* date part of an input that begins with YYYY-MM-DD, day/month for a/b/YYYY
\* with a > 12 and month/day otherwise, the parsed date of another
\* parseable text, and today for an absent or unparseable input.
C16_CanonicalDate ==
    output.done =>
        /\ IsCanonicalDate(output.result)
        /\ input.fmt = "iso" => output.result = IsoDate(input.y, input.m, input.d)
        /\ input.fmt = "slash"
              => output.result = (IF input.p1 > 12 THEN IsoDate(input.y, input.p2, input.p1)
                                                   ELSE IsoDate(input.y, input.p1, input.p2))
        /\ (input.fmt = "text" /\ ValidYMD(input.y, input.m, input.d))
              => output.result \in {IsoDate(input.y, input.m, input.d),
                                    PrevDay(input.y, input.m, input.d)}
        /\ (input.fmt \in {"absent", "garbage"}
               \/ (input.fmt = "text" /\ ~ValidYMD(input.y, input.m, input.d)))
              => output.result = Today

\* C17: every transaction the normalizer produces has amount, vatAmount
\* and grossAmount that are numbers and not negative, whatever the
\* upstream fields hold.
C17_AmountsNotNegative ==
    (output.done /\ output.result # ThrowSeq)
        => \A i \in 1..Len(output.result) :
               LET t == output.result[i]
               IN  /\ IsNum(t.amount) /\ t.amount[1] >= 0
                   /\ IsNum(t.vatAmount) /\ t.vatAmount[1] >= 0
                   /\ IsNum(t.grossAmount) /\ t.grossAmount[1] >= 0

\* the two sequences hold the same elements, each as often
SameElements(s, t) ==
    /\ Len(s) = Len(t)
    /\ \A x \in {s[i] : i \in 1..Len(s)} :
           Cardinality({i \in 1..Len(s) : s[i] = x}) = Cardinality({i \in 1..Len(t) : t[i] = x})

\* C18: with no URL configured no fetch is ever answered or fails, the
\* load puts the cached collection in the store, newest first (nothing
\* when the cache is absent or does not parse), the last-seen keys never
\* change, and no refresh ever starts.
C18_OfflineMode ==
    [][ ~webhookUrl
          => /\ reply'[1] \notin {"load", "refresh"}
             /\ lastSeenKeys' = lastSeenKeys
             /\ refreshes' = <<>> /\ ~refreshing'
             /\ Len(loads') < Len(loads)
                   => /\ SortedByDateDesc(transactions')
                      /\ IF cache.present /\ cache # CorruptCache
                            THEN SameElements(transactions', cache.txs)
                            ELSE transactions' = <<>> ]_vars

\* the offline load has put a cache that was not in order into the store,
\* newest first
C18_Witness ==
    /\ ~webhookUrl
    /\ isAuth /\ loads = <<>>
    /\ cache.present /\ cache # CorruptCache
    /\ ~SortedByDateDesc(cache.txs)
    /\ SameElements(transactions, cache.txs)
    /\ SortedByDateDesc(transactions)

\* the content keys of the batch a completed fetch cycle returned
batchKeys(c) ==
    IF c.path = "load" THEN KeysOf(fetchedOfLoad(c.body, {}, GeneratedId, eastOfUtc))
    ELSE IF c.path = "refresh" THEN KeysOf(decodeRefresh(c.body))
    ELSE {}

\* C19: a successful fetch cycle (load or refresh) marks as new exactly the
\* fetched transactions whose content key the batch of the previous
\* successful cycle did not hold, and leaves the keys of the batch it
\* fetched as the persisted last-seen keys.
C19_DiffAgainstPreviousBatch ==
    [][ (webhookUrl /\ CycleCompleted)
          => /\ cycle'.newCount =
                    Cardinality({i \in 1..Len(transactions') :
                        createTransactionKey(transactions'[i]) \notin batchKeys(cycle)})
             /\ lastSeenKeys' = KeysOf(transactions') ]_vars

\* the transaction without its mark
Unmarked(t) == [t EXCEPT !.isNew = FALSE]

\* C20: the collection a successful refresh puts in the store consists of
\* Transactions in canonical form, the same ones (marks aside) that an
\* initial load of the same response body puts there.
C20_RefreshNormalizes ==
    [][ (CycleCompleted /\ reply' = <<"refresh", TRUE>>)
          => LET loaded == fetchedOfLoad(cycle'.body, {}, GeneratedId, eastOfUtc)
             IN  /\ loaded # ThrowSeq
                 /\ Len(transactions') = Len(loaded)
                 /\ \A i \in 1..Len(transactions') :
                        /\ IsTransaction(transactions'[i])
                        /\ Unmarked(transactions'[i]) = Unmarked(loaded[i]) ]_vars

\* a load or a refresh that was in flight has just resolved or failed
FetchResolved == Len(loads') < Len(loads) \/ Len(refreshes') < Len(refreshes)

\* C21: a load or a refresh that resolves after the user has logged out is
\* ignored: the collection stays empty and the notification log keeps its
\* length.
C21_LogoutAbandonsRequests ==
    [][ (~isAuth /\ FetchResolved)
          => /\ transactions' = <<>>
             /\ storedNotifications' = storedNotifications
             /\ notifications' = notifications ]_vars

C23_OfficialNotEdited ==
    [][ /\ \A u \in updates' \ updates :
              \E i \in 1..Len(transactions) :
                  transactions[i].id = u.id /\ transactions[i].status = MANUAL_REVIEW
        /\ (Answered(updates, updates') /\ reply' = <<"update", TRUE>>)
              => \A i \in 1..Len(transactions) :
                     transactions[i].status = OFFICIAL
                         => transactions'[i] = transactions[i] ]_vars

\* an operation has just completed (a successful load or refresh, a delete
\* with its confirmation or its failure, a successful update) and leaves
\* no request in flight
CompletedAll ==
    /\ \/ CycleCompleted
       \/ Answered(deletes, deletes')
       \/ Answered(updates, updates') /\ reply' = <<"update", TRUE>>
    /\ loads' = <<>> /\ refreshes' = <<>> /\ deletes' = {} /\ updates' = {}

\* C24: when the operations of a signed-in user have completed, the cached
\* snapshot holds the transactions of the collection (the same ids).
C24_SnapshotMatchesStore ==
    [][ (isAuth' /\ CompletedAll)
          => IdsOf(storedOffline(cache')) = IdsOf(transactions') ]_vars

\* C25: when a refresh resolves, the transactions that the user has deleted
\* since it was started are absent from the collection.
C25_DeleteSurvivesRefresh ==
    [][ \A i \in 1..Len(refreshes) :
            (refreshes' = RemoveAt(refreshes, i) /\ reply' = <<"refresh", TRUE>>
                 /\ CycleCompleted)
                => refreshes[i].deleted \cap IdsOf(transactions') = {} ]_vars

\* the sums of the twelve buckets, added as JavaScript adds
RECURSIVE incomeOfMonths(_, _)
incomeOfMonths(stats, m) ==
    IF m = 0 THEN Num(0) ELSE jsAdd(incomeOfMonths(stats, m - 1), stats[m].income)

RECURSIVE expensesOfMonths(_, _)
expensesOfMonths(stats, m) ==
    IF m = 0 THEN Num(0) ELSE jsAdd(expensesOfMonths(stats, m - 1), stats[m].expenses)

\* x === y for two numbers (NaN equals nothing)
SameNumber(x, y) == IsNum(x) /\ IsNum(y) /\ x[1] = y[1]

\* C26: the twelve monthly incomes of the stored collection add up to the
\* total income of its projection, and the twelve monthly expenses to the
\* total expenses.
C26_MonthsAddUpToTotals ==
    LET stats == monthlyStats(transactions)
        p == projection(transactions)
    IN  /\ SameNumber(incomeOfMonths(stats, 12), p.totalIncome)
        /\ SameNumber(expensesOfMonths(stats, 12), p.totalExpenses)

\* C27: a fetch cycle that succeeds with a response that holds no records
\* leaves the collection empty and the persisted last-seen keys and the
\* cached snapshot as they were.
C27_EmptyFetchKeepsBaseline ==
    [][ (webhookUrl /\ CycleCompleted /\ cycle'.body.items = <<>>)
          => /\ transactions' = <<>>
             /\ lastSeenKeys' = lastSeenKeys
             /\ cache' = cache ]_vars

\* a load has come back empty after an earlier one had stored keys and a
\* snapshot, and both are still there
C27_Witness ==
    /\ cycle.path = "load" /\ cycle.body.items = <<>>
    /\ transactions = <<>>
    /\ lastSeenKeys # {}
    /\ cache.present /\ cache.txs # <<>>

\* the amount is a number and is not negative
NotNegative(x) == IsNum(x) /\ x[1] >= 0

\* C28: two transactions with amounts that are not negative have the same
\* content key only if they agree on date, clientName, grossAmount and
\* type; the diffs then take the second for new.
C28_KeyInjective ==
    (output.done /\ NotNegative(input.prev.grossAmount) /\ NotNegative(input.next.grossAmount)
         /\ ~SameContent(input.prev, input.next))
        => /\ createTransactionKey(input.prev) # createTransactionKey(input.next)
           /\ output.marked[1].isNew = TRUE
           /\ Len(output.brandNew) = 1

----------------------------------------------------------------------------
(* createTransaction without a URL, followed by getStoredTransactions: the  *)
(* application is signed out and idle, input holds transactionData and      *)
(* output the transaction returned and then the collection read.            *)

\* what the form hands to createTransaction
CreateInputs ==
    [date : {IsoDate(2024, 3, 10), IsoDate(2024, 1, 5), IsoDate(2023, 12, 31)},
     clientName : {"Acme", "Beta"},
     grossAmount : {100, 124},
     vatAmount : {0, 24},
     type : {INCOME, EXPENSE},
     status : {MANUAL_REVIEW}]

\* tempTransaction of the local fallback, made at the time t
tempTransaction(transactionData, t) ==
    Transaction("temp-" \o ToString(t), transactionData.date, transactionData.clientName,
                Num(transactionData.grossAmount - transactionData.vatAmount),
                Num(transactionData.vatAmount), Num(transactionData.grossAmount),
                transactionData.type, transactionData.status)

\* the local cache after createTransaction: the transaction goes in front
\* when a cache exists and parses, else nothing is written
cacheWithCreated(c, tx) ==
    IF c.present /\ c # CorruptCache THEN Cached(<<tx>> \o c.txs) ELSE c

InitCreate ==
    /\ webhookUrl = FALSE
    /\ backend = "canonical"
    /\ eastOfUtc = FALSE
    /\ now = 0
    /\ ops = 0
    /\ isAuth = FALSE
    /\ hasLoadedRef = FALSE
    /\ transactions = <<>>
    /\ refreshing = FALSE
    /\ notifications = <<>>
    /\ toasts = {}
    /\ alerted = FALSE
    /\ reloadScheduled = FALSE
    /\ hourlyInterval = NoTimer
    /\ lastSeenKeys = {}
    /\ cache \in InitialCaches
    /\ storedNotifications = <<>>
    /\ loads = <<>>
    /\ refreshes = <<>>
    /\ deletes = {}
    /\ updates = {}
    /\ editForm = <<>>
    /\ created = <<>>
    /\ seen = {}
    /\ dropped = {}
    /\ cycle = NoCycle
    /\ dirty = FALSE
    /\ reply = <<"none", TRUE>>
    /\ input \in CreateInputs
    /\ output = NotRun

\* createTransaction(userId, transactionData) with no URL configured
createTransaction ==
    /\ output = NotRun
    /\ LET tx == tempTransaction(input, now)
       IN  /\ cache' = cacheWithCreated(cache, tx)
           /\ output' = [done |-> FALSE, returned |-> tx]
    /\ UNCHANGED <<webhookUrl, backend, eastOfUtc, editForm, now, ops, isAuth, hasLoadedRef,
                   transactions, refreshing, notifications, toasts, alerted,
                   reloadScheduled, hourlyInterval, lastSeenKeys, storedNotifications,
                   loads, refreshes, deletes, updates, histVars, input>>

\* the next getStoredTransactions(userId), with no URL configured
getStoredTransactions ==
    /\ output # NotRun /\ ~output.done
    /\ output' = [done |-> TRUE, returned |-> output.returned,
                  stored |-> storedOffline(cache)]
    /\ UNCHANGED <<appVars, histVars, input>>

NextCreate == createTransaction \/ getStoredTransactions

SpecCreate == InitCreate /\ [][NextCreate]_vars

\* C29: the transaction that createTransaction returned is in the collection
\* that the next getStoredTransactions returns.
C29_CreatedIsStored ==
    output.done => \E i \in 1..Len(output.stored) : output.stored[i] = output.returned

\* C30: whatever logins and logouts have happened, at most one hourly timer
\* runs, and none runs while the user is logged out.
C30_SingleHourlyTimer ==
    /\ Len(hourlyInterval) <= 1
    /\ ~isAuth => hourlyInterval = <<>>

\* the user has logged out and in again with the first load still in
\* flight; one timer runs
C30_Witness ==
    /\ isAuth /\ ops >= 1
    /\ Len(loads) = 2
    /\ Len(hourlyInterval) = 1

====
